---- MODULE Spec2Model ----
(***************************************************************************)
(* Registration and team-formation lifecycle of the Felicity backend.      *)
(*                                                                         *)
(* One event document, the registrations and teams collections, and a      *)
(* small number of request handlers in flight.  Every handler is an async  *)
(* function: it runs atomically between two awaits on the database, so     *)
(* each await on a mutable collection is one action of the model and the   *)
(* handler's local variables (the documents it loaded) live in its slot.   *)
(*                                                                         *)
(* Mongoose's save() of a loaded document writes only the paths whose      *)
(* value was changed ($set per path); a $push on an array increments the   *)
(* version key without testing it; replacing a whole array tests and       *)
(* increments the version key; a save that matches no document throws.     *)
(***************************************************************************)
EXTENDS Integers, FiniteSets, Sequences, TLC

\* ------------------------------------------------------------------ bounds
Participants == {"A", "B", "C"}
Organizer == "org"
Slots == {1, 2}
MaxRequests == 4
MaxStock == 2
MaxQty == 2
MaxSeats == 2
MaxTeamSize == 2
MaxTime == 2

VARIABLES event, registrations, teams, nextRegId, nextTeamId, reqs, started, now

vars == <<event, registrations, teams, nextRegId, nextTeamId, reqs, started, now>>

\* ------------------------------------------------------------- documents
\* qrPayload: null, or the JSON object the code stringifies.  The two
\* creation paths use different keys for the ticket.  The event has one item
\* ("TSHIRT") of one variant; configuredStock remembers the stock the organizer
\* gave it and is never written.
NoQr == [registrationId |-> 0, ticketId |-> 0]

NoOrder ==
  [sku |-> "NONE", quantity |-> 0, amountPaid |-> 0, paymentStatus |-> "NONE",
   paymentProof |-> FALSE]

NoReg ==
  [id |-> 0, participantId |-> "", teamId |-> 0, type |-> "NORMAL", status |-> "NONE",
   ticketId |-> 0, qrPayload |-> NoQr, attended |-> FALSE, attendedAt |-> 0,
   order |-> NoOrder]

NoEvent ==
  [status |-> "NONE", type |-> "NORMAL", allowTeams |-> FALSE, minTeamSize |-> 0,
   maxTeamSize |-> 0, maxParticipants |-> 0, fee |-> 0, formLocked |-> FALSE, stock |-> 0,
   purchaseLimitPerUser |-> 0, configuredStock |-> 0, description |-> 0,
   registrationDeadline |-> 0, eventStartDate |-> 0, eventEndDate |-> 0, eligibility |-> {},
   formSchema |-> 0]

NoTeam == [id |-> 0, teamLeader |-> "", teamSize |-> 0, members |-> <<>>, status |-> "NONE", v |-> 0]

Idle ==
  [op |-> "idle", pc |-> "idle", user |-> "", arg |-> 0, ord |-> NoOrder, ev |-> NoEvent,
   reg |-> NoReg, team |-> NoTeam, date |-> 0, key |-> "", value |-> 0, dispatched |-> "",
   res |-> ""]

\* A handler that has sent its response: the documents it held are dropped.
Done(r, result) == [Idle EXCEPT !.op = r.op, !.pc = "done", !.user = r.user, !.arg = r.arg, !.res = result]

\* A response is delivered before anything else happens: delivery touches no
\* shared state, so no interleaving of the database steps is lost.
Quiet == \A s \in Slots : reqs[s].pc # "done"

\* What became of the notifications, the ticket email or the webhook post a
\* handler sends once its writes are stored.
Outcomes == {"sent", "failed"}

\* The result with createNotification, sendTicketEmail or the webhook
\* rethrowing their failure to the handler.
reported_Rethrown(result, outcome) == IF outcome = "failed" THEN "500" ELSE result

\* createNotification and sendTicketEmail catch and log whatever they throw,
\* and so does the try block around the webhook: the handler goes on to the
\* response it had prepared.
reported(result, outcome) == result

Dispatch(r, result, outcome) == [Done(r, reported(result, outcome)) EXCEPT !.dispatched = outcome]

\* Slots are interchangeable: a new request takes the lowest free one.
Free(s) ==
  /\ Quiet
  /\ started < MaxRequests
  /\ reqs[s] = Idle
  /\ \A q \in Slots : q < s => reqs[q] # Idle

Running(s, op, pc) == Quiet /\ reqs[s].op = op /\ reqs[s].pc = pc

Respond(s) ==
  /\ reqs[s].pc = "done"
  /\ reqs' = [reqs EXCEPT ![s] = Idle]
  /\ UNCHANGED <<event, registrations, teams, nextRegId, nextTeamId, started, now>>

\* ------------------------------------------------------------ collections
RowsOf(p) == {r \in registrations : r.participantId = p}

\* Registration.findOne({eventId, participantId}): the first match.
findOne(p) ==
  IF RowsOf(p) = {} THEN NoReg
  ELSE CHOOSE r \in RowsOf(p) : \A q \in RowsOf(p) : r.id <= q.id

findById(id) ==
  IF \E r \in registrations : r.id = id THEN CHOOSE r \in registrations : r.id = id ELSE NoReg

\* Registration.countDocuments({eventId, status: {$ne: 'CANCELLED'}})
countNonCancelled == Cardinality({r \in registrations : r.status # "CANCELLED"})

\* ------------------------------------------------- registerForEvent
\* participantProfile.participantType of the users: C has none.
participantType(u) == IF u = "A" THEN "IIIT" ELSE IF u = "B" THEN "NON_IIIT" ELSE ""

\* The deadline test without the fall-back to the event's start date.
deadlinePassed_DeadlineOnly(ev) == ev.registrationDeadline # 0 /\ now > ev.registrationDeadline

\* The deadline tests of both handlers (lines 138-143 and 313-316): a date
\* that is not set is 0; the registration deadline, or else the start date.
deadlinePassed(ev) ==
  \/ ev.registrationDeadline # 0 /\ now > ev.registrationDeadline
  \/ ev.registrationDeadline = 0 /\ ev.eventStartDate # 0 /\ now > ev.eventStartDate

\* The eligibility test (lines 165-173 and 337-345).
notEligible(ev, u) ==
  ev.eligibility # {} /\ (participantType(u) = "" \/ participantType(u) \notin ev.eligibility)

\* Event.findById and the checks on the event document (lines 118-144).
registerForEvent_Start(s, u) ==
  /\ Free(s)
  /\ LET r == [Idle EXCEPT !.op = "registerForEvent", !.user = u, !.ev = event] IN
       reqs' = [reqs EXCEPT ![s] =
         IF event.status # "PUBLISHED" THEN Done(r, "403 not published")
         ELSE IF event.type = "MERCH" THEN Done(r, "400 merchandise event")
         ELSE IF event.allowTeams THEN Done(r, "400 team registration required")
         ELSE IF deadlinePassed(event) THEN Done(r, "400 registration closed")
         ELSE [r EXCEPT !.pc = "findExisting"]]
  /\ started' = IF reqs'[s].pc = "done" THEN started ELSE started + 1
  /\ UNCHANGED <<event, registrations, teams, nextRegId, nextTeamId, now>>

\* Registration.findOne for the pair (lines 146-154).
register_FindExisting(s) ==
  /\ Quiet
  /\ reqs[s].op \in {"registerForEvent", "registerForMerchEvent"}
  /\ reqs[s].pc = "findExisting"
  /\ LET r == reqs[s]
         existing == findOne(r.user) IN
       reqs' = [reqs EXCEPT ![s] =
         IF existing = NoReg THEN [r EXCEPT !.pc = "countDocuments"]
         ELSE IF existing.status \in {"REJECTED", "CANCELLED"}
           THEN [r EXCEPT !.pc = "deleteOne", !.reg = existing]
         ELSE Done(r, "400 already registered")]
  /\ UNCHANGED <<event, registrations, teams, nextRegId, nextTeamId, started, now>>

\* Registration.deleteOne({_id: existing._id}) (line 150).
register_DeleteOne(s) ==
  /\ Quiet
  /\ reqs[s].op \in {"registerForEvent", "registerForMerchEvent"}
  /\ reqs[s].pc = "deleteOne"
  /\ registrations' = {r \in registrations : r.id # reqs[s].reg.id}
  /\ reqs' = [reqs EXCEPT ![s].pc = "countDocuments"]
  /\ UNCHANGED <<event, teams, nextRegId, nextTeamId, started, now>>

\* The capacity check (lines 156-163); the eligibility check reads only the
\* user, and the ticket id is drawn locally.
register_CountDocuments(s) ==
  /\ Quiet
  /\ reqs[s].op \in {"registerForEvent", "registerForMerchEvent"}
  /\ reqs[s].pc = "countDocuments"
  /\ LET r == reqs[s] IN
       reqs' = [reqs EXCEPT ![s] =
         IF r.ev.maxParticipants # 0 /\ countNonCancelled >= r.ev.maxParticipants
           THEN Done(r, "400 maximum participant limit")
         ELSE IF notEligible(r.ev, r.user) THEN Done(r, "403 not eligible")
         ELSE [r EXCEPT !.pc = "save"]]
  /\ UNCHANGED <<event, registrations, teams, nextRegId, nextTeamId, started, now>>

\* The registration with payment asked only for a fee above 1.
newRegistration_FeeAboveOne(id, u, ev) ==
  LET needsPayment == ev.fee > 1 IN
  [id |-> id, participantId |-> u, teamId |-> 0, type |-> "NORMAL",
   status |-> IF needsPayment THEN "PENDING" ELSE "CONFIRMED",
   ticketId |-> id,
   qrPayload |-> IF needsPayment THEN NoQr ELSE [registrationId |-> id, ticketId |-> 0],
   attended |-> FALSE, attendedAt |-> 0,
   order |-> IF needsPayment
             THEN [sku |-> "REGISTRATION_FEE", quantity |-> 1, amountPaid |-> ev.fee,
                   paymentStatus |-> "PENDING", paymentProof |-> FALSE]
             ELSE NoOrder]

\* new Registration({...}) and registration.save() (lines 175-213).
newRegistration(id, u, ev) ==
  LET needsPayment == ev.fee > 0 IN
  [id |-> id, participantId |-> u, teamId |-> 0, type |-> "NORMAL",
   status |-> IF needsPayment THEN "PENDING" ELSE "CONFIRMED",
   ticketId |-> id,
   qrPayload |-> IF needsPayment THEN NoQr ELSE [registrationId |-> id, ticketId |-> 0],
   attended |-> FALSE, attendedAt |-> 0,
   order |-> IF needsPayment
             THEN [sku |-> "REGISTRATION_FEE", quantity |-> 1, amountPaid |-> ev.fee,
                   paymentStatus |-> "PENDING", paymentProof |-> FALSE]
             ELSE NoOrder]

registerForEvent_Save(s) ==
  /\ Running(s, "registerForEvent", "save")
  /\ registrations' = registrations \cup {newRegistration(nextRegId, reqs[s].user, reqs[s].ev)}
  /\ nextRegId' = nextRegId + 1
  /\ reqs' = [reqs EXCEPT ![s].pc = "countAll", ![s].arg = nextRegId]
  /\ UNCHANGED <<event, teams, nextTeamId, started, now>>

\* Registration.countDocuments({eventId}) for the form lock (lines 215-217).
registerForEvent_CountAll(s) ==
  /\ Running(s, "registerForEvent", "countAll")
  /\ \E outcome \in Outcomes :
       LET r == reqs[s] IN
       reqs' = [reqs EXCEPT ![s] =
         IF Cardinality(registrations) = 1 /\ ~r.ev.formLocked
           THEN [r EXCEPT !.pc = "lockForm"]
         ELSE Dispatch(r, "201", outcome)]
  /\ UNCHANGED <<event, registrations, teams, nextRegId, nextTeamId, started, now>>

\* event.formLocked = true; event.save() (lines 218-219).
registerForEvent_LockForm(s) ==
  /\ Running(s, "registerForEvent", "lockForm")
  /\ event' = [event EXCEPT !.formLocked = TRUE]
  /\ \E outcome \in Outcomes : reqs' = [reqs EXCEPT ![s] = Dispatch(reqs[s], "201", outcome)]
  /\ UNCHANGED <<registrations, teams, nextRegId, nextTeamId, started, now>>

\* ------------------------------------------------- registerForMerchEvent
\* The event schema has no merchandiseFee path, so the value createEvent
\* passes is not stored and Number(event.merchandiseFee || 0) is 0.
merchandiseFee(ev) == 0

\* merchOrderSchema.paymentStatus is an enum; a document outside it fails
\* validation and is not written.
validOrder(o) == o.paymentStatus \in {"NONE", "PENDING", "APPROVED", "REJECTED"}

\* Event.findById and the checks on the event document (lines 296-316).
registerForMerchEvent_Start(s, u, o) ==
  /\ Free(s)
  /\ LET r == [Idle EXCEPT !.op = "registerForMerchEvent", !.user = u, !.ord = o, !.ev = event] IN
       reqs' = [reqs EXCEPT ![s] =
         IF event.status # "PUBLISHED" THEN Done(r, "403 not published")
         ELSE IF event.type # "MERCH" THEN Done(r, "400 not a merchandise event")
         ELSE IF event.allowTeams THEN Done(r, "400 team registration required")
         ELSE IF deadlinePassed(event) THEN Done(r, "400 registration closed")
         ELSE [r EXCEPT !.pc = "findExisting"]]
  /\ started' = IF reqs'[s].pc = "done" THEN started ELSE started + 1
  /\ UNCHANGED <<event, registrations, teams, nextRegId, nextTeamId, now>>

\* The document Registration.create is given (lines 349-385 and 454-501).
newMerchRegistration(id, u, ev, o) ==
  LET isRegOnly == o.sku = "NONE"
      total == IF isRegOnly THEN ev.fee ELSE ev.fee + merchandiseFee(ev) * o.quantity
      needsPayment == total > 0 IN
  [id |-> id, participantId |-> u, teamId |-> 0, type |-> "MERCH",
   status |-> IF needsPayment THEN "PENDING" ELSE "CONFIRMED",
   ticketId |-> id,
   qrPayload |-> IF needsPayment THEN NoQr ELSE [registrationId |-> id, ticketId |-> 0],
   attended |-> FALSE, attendedAt |-> 0,
   order |-> [sku |-> IF isRegOnly THEN "REGISTRATION_FEE" ELSE o.sku,
              quantity |-> IF isRegOnly THEN 1 ELSE o.quantity,
              amountPaid |-> total,
              paymentStatus |-> IF needsPayment THEN "PENDING" ELSE "PAID",
              paymentProof |-> FALSE]]

\* The order checks against the loaded event (lines 454-470); "" when they pass.
orderRefusal(ev, o) ==
  IF o.sku = "NONE" THEN ""
  ELSE IF o.sku # "TSHIRT" THEN "400 invalid item"
  ELSE IF ev.stock < o.quantity THEN "400 exceeds available stock"
  ELSE IF ev.purchaseLimitPerUser # 0 /\ o.quantity > ev.purchaseLimitPerUser
    THEN "400 purchase limit"
  ELSE ""

registerForMerchEvent_Create(s) ==
  /\ Running(s, "registerForMerchEvent", "save")
  /\ LET r == reqs[s]
         doc == newMerchRegistration(nextRegId, r.user, r.ev, r.ord) IN
       IF orderRefusal(r.ev, r.ord) # ""
         THEN /\ reqs' = [reqs EXCEPT ![s] = Done(r, orderRefusal(r.ev, r.ord))]
              /\ UNCHANGED <<registrations, nextRegId>>
       ELSE IF ~validOrder(doc.order)
         THEN /\ reqs' = [reqs EXCEPT ![s] = Done(r, "500")]
              /\ UNCHANGED <<registrations, nextRegId>>
       ELSE /\ registrations' = registrations \cup {doc}
            /\ nextRegId' = nextRegId + 1
            /\ \E outcome \in Outcomes :
                 reqs' = [reqs EXCEPT ![s] = Dispatch([r EXCEPT !.arg = nextRegId], "201", outcome)]
  /\ UNCHANGED <<event, teams, nextTeamId, started, now>>

\* ------------------------------------------------------ document.save()
\* The paths of the loaded document `snap` that the handler changed to get
\* `doc` are written over the stored row; the other paths keep what is stored.
mergeOrder(db, snap, doc) ==
  [db EXCEPT
     !.paymentStatus = IF doc.paymentStatus # snap.paymentStatus THEN doc.paymentStatus ELSE @,
     !.paymentProof = IF doc.paymentProof # snap.paymentProof THEN doc.paymentProof ELSE @]

mergeReg(db, snap, doc) ==
  [db EXCEPT
     !.status = IF doc.status # snap.status THEN doc.status ELSE @,
     !.qrPayload = IF doc.qrPayload # snap.qrPayload THEN doc.qrPayload ELSE @,
     !.attended = IF doc.attended # snap.attended THEN doc.attended ELSE @,
     !.attendedAt = IF doc.attendedAt # snap.attendedAt THEN doc.attendedAt ELSE @,
     !.order = mergeOrder(@, snap.order, doc.order)]

\* Outcome of registration.save(): nothing changed, so nothing is sent; or no
\* stored row has the id any more, so save throws; or the row is updated.
saveFails(snap, doc) == doc # snap /\ findById(snap.id) = NoReg

savedRegistrations(snap, doc) ==
  IF doc = snap \/ findById(snap.id) = NoReg THEN registrations
  ELSE {IF r.id = snap.id THEN mergeReg(r, snap, doc) ELSE r : r \in registrations}

\* ---------------------------------------------------------------- checkIn
\* The clock that new Date() reads.
Tick ==
  /\ Quiet
  /\ now < MaxTime
  /\ now' = now + 1
  /\ UNCHANGED <<event, registrations, teams, nextRegId, nextTeamId, reqs, started>>

\* Registration.findOne({ticketId: payload.registrationId, eventId}): a payload
\* without the key registrationId asks for ticketId null, which no row has.
findByTicket(ticket) ==
  IF ticket # 0 /\ \E r \in registrations : r.ticketId = ticket
  THEN CHOOSE r \in registrations : r.ticketId = ticket
  ELSE NoReg

\* The message of the response (line 332), read from the document in memory.
checkInMessage(registration) ==
  IF registration.attended THEN "200 Already checked in" ELSE "200 Check-in successful"

\* checkIn that writes attended again although the loaded row has it set.
checkIn_Start_AlwaysWrites(s, actor, payload) ==
  /\ Free(s)
  /\ LET r == [Idle EXCEPT !.op = "checkIn", !.user = actor, !.arg = payload.registrationId]
         registration == findByTicket(payload.registrationId) IN
       reqs' = [reqs EXCEPT ![s] =
         IF actor # Organizer THEN Done(r, "403")
         ELSE IF registration = NoReg THEN Done(r, "404")
         ELSE IF registration.status = "CANCELLED" THEN Done(r, "400 cancelled")
         ELSE [r EXCEPT !.pc = "save", !.reg = registration, !.date = now]]
  /\ started' = IF reqs'[s].pc = "done" THEN started ELSE started + 1
  /\ UNCHANGED <<event, registrations, teams, nextRegId, nextTeamId, now>>

\* The organizer test, the parsed payload, Registration.findOne and the tests
\* on the row (lines 297-325); attendedAt is new Date() of this moment.
checkIn_Start(s, actor, payload) ==
  /\ Free(s)
  /\ LET r == [Idle EXCEPT !.op = "checkIn", !.user = actor, !.arg = payload.registrationId]
         registration == findByTicket(payload.registrationId) IN
       reqs' = [reqs EXCEPT ![s] =
         IF actor # Organizer THEN Done(r, "403")
         ELSE IF registration = NoReg THEN Done(r, "404")
         ELSE IF registration.status = "CANCELLED" THEN Done(r, "400 cancelled")
         ELSE IF registration.attended THEN Done(r, checkInMessage(registration))
         ELSE [r EXCEPT !.pc = "save", !.reg = registration, !.date = now]]
  /\ started' = IF reqs'[s].pc = "done" THEN started ELSE started + 1
  /\ UNCHANGED <<event, registrations, teams, nextRegId, nextTeamId, now>>

\* registration.save() of attended and attendedAt (lines 326-328) and the
\* response (lines 331-341).
checkIn_Save(s) ==
  /\ Running(s, "checkIn", "save")
  /\ LET r == reqs[s]
         doc == [r.reg EXCEPT !.attended = TRUE, !.attendedAt = r.date] IN
       /\ registrations' = savedRegistrations(r.reg, doc)
       /\ reqs' = [reqs EXCEPT ![s] =
            IF saveFails(r.reg, doc) THEN Done(r, "500") ELSE Done(r, checkInMessage(doc))]
  /\ UNCHANGED <<event, teams, nextRegId, nextTeamId, started, now>>

\* ---------------------------------------------------- cancelRegistration
\* cancelRegistration without the test for a registration already CANCELLED.
cancelRegistration_Start_NoCancelledTest(s, u, id) ==
  /\ Free(s)
  /\ LET r == [Idle EXCEPT !.op = "cancelRegistration", !.user = u, !.arg = id]
         registration == findById(id) IN
       reqs' = [reqs EXCEPT ![s] =
         IF registration = NoReg THEN Done(r, "404")
         ELSE IF registration.participantId # u THEN Done(r, "403")
         ELSE IF registration.type = "MERCH" /\ registration.order.paymentStatus = "APPROVED"
           THEN Done(r, "400 approved merchandise order")
         ELSE [r EXCEPT !.pc = "save", !.reg = registration]]
  /\ started' = IF reqs'[s].pc = "done" THEN started ELSE started + 1
  /\ UNCHANGED <<event, registrations, teams, nextRegId, nextTeamId, now>>

\* Registration.findById and the checks (lines 33-46).
cancelRegistration_Start(s, u, id) ==
  /\ Free(s)
  /\ LET r == [Idle EXCEPT !.op = "cancelRegistration", !.user = u, !.arg = id]
         registration == findById(id) IN
       reqs' = [reqs EXCEPT ![s] =
         IF registration = NoReg THEN Done(r, "404")
         ELSE IF registration.participantId # u THEN Done(r, "403")
         ELSE IF registration.status = "CANCELLED" THEN Done(r, "400 already cancelled")
         ELSE IF registration.type = "MERCH" /\ registration.order.paymentStatus = "APPROVED"
           THEN Done(r, "400 approved merchandise order")
         ELSE [r EXCEPT !.pc = "save", !.reg = registration]]
  /\ started' = IF reqs'[s].pc = "done" THEN started ELSE started + 1
  /\ UNCHANGED <<event, registrations, teams, nextRegId, nextTeamId, now>>

\* registration.status = 'CANCELLED'; registration.save() (lines 48-52).
cancelRegistration_Save(s) ==
  /\ Running(s, "cancelRegistration", "save")
  /\ LET r == reqs[s]
         doc == [r.reg EXCEPT !.status = "CANCELLED"] IN
       /\ registrations' = savedRegistrations(r.reg, doc)
       /\ reqs' = [reqs EXCEPT ![s] =
            IF saveFails(r.reg, doc) THEN Done(r, "500")
            ELSE IF doc.type = "MERCH" /\ doc.order.paymentStatus = "APPROVED"
              THEN [r EXCEPT !.pc = "restoreStock", !.reg = doc]
            ELSE Done(r, "200")]
  /\ UNCHANGED <<event, teams, nextRegId, nextTeamId, started, now>>

\* variant.stock += quantity; event.save() (lines 53-66).  The handler gets
\* here only with an APPROVED merchandise order, which line 44 has refused.
cancelRegistration_RestoreStock(s) ==
  /\ Running(s, "cancelRegistration", "restoreStock")
  /\ event' = [event EXCEPT !.stock = @ + reqs[s].reg.order.quantity]
  /\ reqs' = [reqs EXCEPT ![s] = Done(reqs[s], "200")]
  /\ UNCHANGED <<registrations, teams, nextRegId, nextTeamId, started, now>>

\* ---------------------------------------------------- uploadPaymentProof
\* Registration.findById and the checks (lines 319-334).
uploadPaymentProof_Start(s, u, id) ==
  /\ Free(s)
  /\ LET r == [Idle EXCEPT !.op = "uploadPaymentProof", !.user = u, !.arg = id]
         registration == findById(id) IN
       reqs' = [reqs EXCEPT ![s] =
         IF registration = NoReg THEN Done(r, "404")
         ELSE IF registration.participantId # u THEN Done(r, "403")
         ELSE IF registration.type # "MERCH" THEN Done(r, "400 only for merchandise orders")
         ELSE IF registration.order = NoOrder THEN Done(r, "500")
         ELSE IF registration.order.paymentStatus = "APPROVED" THEN Done(r, "400 already approved")
         ELSE [r EXCEPT !.pc = "save", !.reg = registration]]
  /\ started' = IF reqs'[s].pc = "done" THEN started ELSE started + 1
  /\ UNCHANGED <<event, registrations, teams, nextRegId, nextTeamId, now>>

\* The file path is new on every upload, so order.paymentProof is always
\* written; order.paymentStatus only if it was not PENDING (lines 337-340).
uploadPaymentProof_Save(s) ==
  /\ Running(s, "uploadPaymentProof", "save")
  /\ LET r == reqs[s]
         snap == [r.reg EXCEPT !.order.paymentProof = FALSE]
         doc == [r.reg EXCEPT !.order.paymentProof = TRUE, !.order.paymentStatus = "PENDING"] IN
       /\ registrations' = savedRegistrations(snap, doc)
       /\ reqs' = [reqs EXCEPT ![s] = Done(r, IF saveFails(snap, doc) THEN "500" ELSE "200")]
  /\ UNCHANGED <<event, teams, nextRegId, nextTeamId, started, now>>

\* -------------------------------------------------------- approvePayment
\* Registration.findById (lines 559-561).
approvePayment_Start(s, actor, id) ==
  /\ Free(s)
  /\ LET r == [Idle EXCEPT !.op = "approvePayment", !.user = actor, !.arg = id]
         registration == findById(id) IN
       reqs' = [reqs EXCEPT ![s] =
         IF registration = NoReg THEN Done(r, "404")
         ELSE [r EXCEPT !.pc = "findEvent", !.reg = registration]]
  /\ started' = IF reqs'[s].pc = "done" THEN started ELSE started + 1
  /\ UNCHANGED <<event, registrations, teams, nextRegId, nextTeamId, now>>

\* The stock test with its bound off by one.
insufficientStock_OffByOne(stock, quantity) == stock + 1 < quantity

\* The stock test of lines 593-594.
insufficientStock(stock, quantity) == stock < quantity

\* Event.findById and the checks on both documents (lines 563-594).
approvePayment_FindEvent(s) ==
  /\ Running(s, "approvePayment", "findEvent")
  /\ LET r == reqs[s] IN
       reqs' = [reqs EXCEPT ![s] =
         IF r.user # Organizer THEN Done(r, "403")
         ELSE IF r.reg.order = NoOrder THEN Done(r, "400 no payment order")
         ELSE IF r.reg.order.paymentStatus = "APPROVED" THEN Done(r, "400 already approved")
         ELSE IF ~r.reg.order.paymentProof THEN Done(r, "400 no payment proof")
         ELSE IF r.reg.order.sku = "REGISTRATION_FEE" THEN [r EXCEPT !.pc = "save", !.ev = event]
         ELSE IF r.reg.order.sku # "TSHIRT" THEN Done(r, "404 item not found")
         ELSE IF insufficientStock(event.stock, r.reg.order.quantity)
           THEN Done(r, "400 insufficient stock")
         ELSE [r EXCEPT !.pc = "eventSave", !.ev = event]]
  /\ UNCHANGED <<event, registrations, teams, nextRegId, nextTeamId, started, now>>

\* variant.stock -= quantity; event.save() (lines 596-597): the stock the
\* handler loaded, less the quantity, is written if it differs.
approvePayment_EventSave(s) ==
  /\ Running(s, "approvePayment", "eventSave")
  /\ LET r == reqs[s] IN
       event' = IF r.reg.order.quantity # 0
                THEN [event EXCEPT !.stock = r.ev.stock - r.reg.order.quantity]
                ELSE event
  /\ reqs' = [reqs EXCEPT ![s].pc = "save"]
  /\ UNCHANGED <<registrations, teams, nextRegId, nextTeamId, started, now>>

\* approvePayment confirming the registration without a qrPayload.
approvePayment_Save_NoQr(s) ==
  /\ Running(s, "approvePayment", "save")
  /\ LET r == reqs[s]
         doc == [r.reg EXCEPT !.order.paymentStatus = "APPROVED", !.status = "CONFIRMED"] IN
       /\ registrations' = savedRegistrations(r.reg, doc)
       /\ \E outcome \in Outcomes :
            reqs' = [reqs EXCEPT ![s] =
              IF saveFails(r.reg, doc) THEN Done(r, "500") ELSE Dispatch(r, "200", outcome)]
  /\ UNCHANGED <<event, teams, nextRegId, nextTeamId, started, now>>

\* paymentStatus, status and qrPayload are set and saved (lines 600-612).
approvePayment_Save(s) ==
  /\ Running(s, "approvePayment", "save")
  /\ LET r == reqs[s]
         doc == [r.reg EXCEPT !.order.paymentStatus = "APPROVED", !.status = "CONFIRMED",
                              !.qrPayload = [registrationId |-> r.reg.ticketId, ticketId |-> 0]] IN
       /\ registrations' = savedRegistrations(r.reg, doc)
       /\ \E outcome \in Outcomes :
            reqs' = [reqs EXCEPT ![s] =
              IF saveFails(r.reg, doc) THEN Done(r, "500") ELSE Dispatch(r, "200", outcome)]
  /\ UNCHANGED <<event, teams, nextRegId, nextTeamId, started, now>>

\* --------------------------------------------------------- rejectPayment
\* Registration.findById, Event.findById and the checks (lines 657-672).
rejectPayment_Start(s, actor, id) ==
  /\ Free(s)
  /\ LET r == [Idle EXCEPT !.op = "rejectPayment", !.user = actor, !.arg = id]
         registration == findById(id) IN
       reqs' = [reqs EXCEPT ![s] =
         IF registration = NoReg THEN Done(r, "404")
         ELSE IF actor # Organizer THEN Done(r, "403")
         ELSE IF registration.order = NoOrder THEN Done(r, "400 no payment order")
         ELSE IF registration.order.paymentStatus = "APPROVED" THEN Done(r, "400 already approved")
         ELSE [r EXCEPT !.pc = "save", !.reg = registration]]
  /\ started' = IF reqs'[s].pc = "done" THEN started ELSE started + 1
  /\ UNCHANGED <<event, registrations, teams, nextRegId, nextTeamId, now>>

\* rejectPayment giving the units of the rejected order back to the variant.
rejectPayment_Save_ReleasesStock(s) ==
  /\ Running(s, "rejectPayment", "save")
  /\ LET r == reqs[s]
         doc == [r.reg EXCEPT !.order.paymentStatus = "REJECTED", !.status = "REJECTED"] IN
       /\ registrations' = savedRegistrations(r.reg, doc)
       /\ event' = [event EXCEPT !.stock = @ + r.reg.order.quantity]
       /\ \E outcome \in Outcomes :
            reqs' = [reqs EXCEPT ![s] =
              IF saveFails(r.reg, doc) THEN Done(r, "500") ELSE Dispatch(r, "200", outcome)]
  /\ UNCHANGED <<teams, nextRegId, nextTeamId, started, now>>

\* paymentStatus and status are set and saved (lines 674-678).
rejectPayment_Save(s) ==
  /\ Running(s, "rejectPayment", "save")
  /\ LET r == reqs[s]
         doc == [r.reg EXCEPT !.order.paymentStatus = "REJECTED", !.status = "REJECTED"] IN
       /\ registrations' = savedRegistrations(r.reg, doc)
       /\ \E outcome \in Outcomes :
            reqs' = [reqs EXCEPT ![s] =
              IF saveFails(r.reg, doc) THEN Done(r, "500") ELSE Dispatch(r, "200", outcome)]
  /\ UNCHANGED <<event, teams, nextRegId, nextTeamId, started, now>>

\* ----------------------------------------------------------------- teams
member(u) == [userId |-> u, status |-> "ACCEPTED"]

RECURSIVE accepted(_)
\* team.members.filter(m => m.status === "ACCEPTED")
accepted(ms) ==
  IF ms = <<>> THEN <<>>
  ELSE IF Head(ms).status = "ACCEPTED" THEN <<Head(ms)>> \o accepted(Tail(ms))
  ELSE accepted(Tail(ms))

RECURSIVE without(_, _)
\* team.members.filter(m => m.userId.toString() !== userId)
without(ms, u) ==
  IF ms = <<>> THEN <<>>
  ELSE IF Head(ms).userId = u THEN without(Tail(ms), u)
  ELSE <<Head(ms)>> \o without(Tail(ms), u)

isMember(t, u) == \E i \in 1..Len(t.members) : t.members[i].userId = u

teamById(id) == IF \E t \in teams : t.id = id THEN CHOOSE t \in teams : t.id = id ELSE NoTeam

\* Team.findOne({eventId, $or: [{teamLeader}, {"members.userId"}], status: {$in: active}}),
\* leaving out the team with id `except` (0: none).
activeTeamsOf(u, except) ==
  {t \in teams : /\ t.id # except
                 /\ (t.teamLeader = u \/ isMember(t, u))
                 /\ t.status \in {"FORMING", "COMPLETE", "REGISTERED"}}

\* Registration.findOne({eventId, participantId, status: {$in: ["PENDING", "CONFIRMED"]}})
hasActiveRegistration(u) ==
  \E r \in registrations : r.participantId = u /\ r.status \in {"PENDING", "CONFIRMED"}

\* ------------------------------------------------------------ createTeam
\* Event.findById and the checks on the event and the size (lines 13-28).
createTeam_Start(s, u, size) ==
  /\ Free(s)
  /\ LET r == [Idle EXCEPT !.op = "createTeam", !.user = u, !.arg = size, !.ev = event] IN
       reqs' = [reqs EXCEPT ![s] =
         IF ~event.allowTeams THEN Done(r, "400 no team registration")
         ELSE IF (event.minTeamSize # 0 /\ size < event.minTeamSize)
                 \/ (event.maxTeamSize # 0 /\ size > event.maxTeamSize)
           THEN Done(r, "400 team size")
         ELSE [r EXCEPT !.pc = "findTeam"]]
  /\ started' = IF reqs'[s].pc = "done" THEN started ELSE started + 1
  /\ UNCHANGED <<event, registrations, teams, nextRegId, nextTeamId, now>>

\* Team.findOne for a team of the user (lines 30-44).
createTeam_FindTeam(s) ==
  /\ Running(s, "createTeam", "findTeam")
  /\ reqs' = [reqs EXCEPT ![s] =
       IF activeTeamsOf(reqs[s].user, 0) # {} THEN Done(reqs[s], "400 already part of a team")
       ELSE [reqs[s] EXCEPT !.pc = "findRegistration"]]
  /\ UNCHANGED <<event, registrations, teams, nextRegId, nextTeamId, started, now>>

\* Registration.findOne for the user (lines 46-57); the invite code drawn
\* next is new.
createTeam_FindRegistration(s) ==
  /\ Running(s, "createTeam", "findRegistration")
  /\ reqs' = [reqs EXCEPT ![s] =
       IF hasActiveRegistration(reqs[s].user)
         THEN Done(reqs[s], "400 individual registration")
       ELSE [reqs[s] EXCEPT !.pc = "teamSave"]]
  /\ UNCHANGED <<event, registrations, teams, nextRegId, nextTeamId, started, now>>

\* new Team({...}); team.save() (lines 68-86).  teamSchema.teamSize has
\* min: 2, so a team of size 1 fails validation and is not stored.
createTeam_Save(s) ==
  /\ Running(s, "createTeam", "teamSave")
  /\ LET r == reqs[s]
         team == [id |-> nextTeamId, teamLeader |-> r.user, teamSize |-> r.arg,
                  members |-> <<member(r.user)>>,
                  status |-> IF r.arg = 1 THEN "COMPLETE" ELSE "FORMING", v |-> 0] IN
       IF r.arg < 2
         THEN /\ reqs' = [reqs EXCEPT ![s] = Done(r, "500")]
              /\ UNCHANGED <<teams, nextTeamId>>
         ELSE /\ teams' = teams \cup {team}
              /\ nextTeamId' = nextTeamId + 1
              /\ reqs' = [reqs EXCEPT ![s] = Done(r, "201")]
  /\ UNCHANGED <<event, registrations, nextRegId, started, now>>

\* -------------------------------------------------------------- joinTeam
\* Team.findOne({inviteCode}) and the checks on the team (lines 110-136).
joinTeam_Start(s, u, code) ==
  /\ Free(s)
  /\ LET r == [Idle EXCEPT !.op = "joinTeam", !.user = u, !.arg = code]
         team == teamById(code) IN
       reqs' = [reqs EXCEPT ![s] =
         IF team = NoTeam THEN Done(r, "404")
         ELSE IF team.status # "FORMING" THEN Done(r, "400 no longer accepting members")
         ELSE IF isMember(team, u) THEN Done(r, "400 already part of this team")
         ELSE IF Len(accepted(team.members)) >= team.teamSize
           THEN Done(r, "400 team is already full")
         ELSE [r EXCEPT !.pc = "findOtherTeam", !.team = team]]
  /\ started' = IF reqs'[s].pc = "done" THEN started ELSE started + 1
  /\ UNCHANGED <<event, registrations, teams, nextRegId, nextTeamId, now>>

\* Team.findOne for another team of the user (lines 138-153).
joinTeam_FindOtherTeam(s) ==
  /\ Running(s, "joinTeam", "findOtherTeam")
  /\ reqs' = [reqs EXCEPT ![s] =
       IF activeTeamsOf(reqs[s].user, reqs[s].team.id) # {}
         THEN Done(reqs[s], "400 already part of another team")
       ELSE [reqs[s] EXCEPT !.pc = "findRegistration"]]
  /\ UNCHANGED <<event, registrations, teams, nextRegId, nextTeamId, started, now>>

\* Registration.findOne for the user (lines 155-166), then the member is
\* pushed on the loaded team and its status set (lines 168-180).
joinTeam_FindRegistration(s) ==
  /\ Running(s, "joinTeam", "findRegistration")
  /\ LET r == reqs[s]
         members == Append(r.team.members, member(r.user))
         complete == Len(accepted(members)) = r.team.teamSize IN
       reqs' = [reqs EXCEPT ![s] =
         IF hasActiveRegistration(r.user) THEN Done(r, "400 individual registration")
         ELSE [r EXCEPT !.pc = "teamSave", !.team.members = members,
                        !.team.status = IF complete THEN "COMPLETE" ELSE @]]
  /\ UNCHANGED <<event, registrations, teams, nextRegId, nextTeamId, started, now>>

\* team.save() (lines 182 and 185): the new member is $push-ed on the stored
\* array and the version incremented, without a test of the version; the
\* status is written if the handler changed it.
joinTeam_Save(s) ==
  /\ Running(s, "joinTeam", "teamSave")
  /\ LET r == reqs[s] IN
       /\ teams' = {IF t.id = r.team.id
                    THEN [t EXCEPT !.members = Append(@, member(r.user)), !.v = @ + 1,
                                   !.status = IF r.team.status = "COMPLETE" THEN "COMPLETE" ELSE @]
                    ELSE t : t \in teams}
       /\ \E outcome \in Outcomes :
            reqs' = [reqs EXCEPT ![s] =
              IF r.team.status = "COMPLETE" THEN [r EXCEPT !.pc = "insertMany"]
              ELSE Dispatch(r, "200", outcome)]
  /\ UNCHANGED <<event, registrations, nextRegId, nextTeamId, started, now>>

\* ---------------------------------------------------------- registerTeam
\* The registration built for the i-th accepted member (lines 385-407).
teamRegistration(team, ev, i) ==
  [id |-> nextRegId + i - 1, participantId |-> accepted(team.members)[i].userId,
   teamId |-> team.id, type |-> ev.type, status |-> "CONFIRMED",
   ticketId |-> nextRegId + i - 1,
   qrPayload |-> [registrationId |-> 0, ticketId |-> nextRegId + i - 1],
   attended |-> FALSE, attendedAt |-> 0, order |-> NoOrder]

\* Registration.insertMany(registrations) (line 412), ordered: when the
\* storage fails at the k-th document, the ones before it stay inserted and
\* the error goes up through registerTeam to the caller's catch.
registerTeam_InsertMany(s, failAt) ==
  /\ Quiet
  /\ reqs[s].pc = "insertMany"
  /\ LET r == reqs[s]
         n == Len(accepted(r.team.members))
         k == IF failAt = 0 THEN n ELSE failAt - 1 IN
       /\ failAt <= n
       /\ registrations' = registrations \cup {teamRegistration(r.team, event, i) : i \in 1..k}
       /\ nextRegId' = nextRegId + n
       /\ reqs' = [reqs EXCEPT ![s] =
            IF failAt = 0 THEN [r EXCEPT !.pc = "teamRegistered"] ELSE Done(r, "500")]
  /\ UNCHANGED <<event, teams, nextTeamId, started, now>>

\* team.status = "REGISTERED"; team.save() (lines 414-417); `fails`: the
\* storage fails on this write.
registerTeam_Save(s, fails) ==
  /\ Quiet
  /\ reqs[s].pc = "teamRegistered"
  /\ LET r == reqs[s] IN
       /\ teams' = IF fails THEN teams
                   ELSE {IF t.id = r.team.id THEN [t EXCEPT !.status = "REGISTERED"] ELSE t :
                           t \in teams}
       /\ \E outcome \in Outcomes :
            reqs' = [reqs EXCEPT ![s] =
              IF fails THEN Done(r, "500") ELSE Dispatch(r, "200", outcome)]
  /\ UNCHANGED <<event, registrations, nextRegId, nextTeamId, started, now>>

\* ------------------------------------------------------------- leaveTeam
\* leaveTeam without the refusal of the team leader.
leaveTeam_Start_LeaderMayLeave(s, u, id) ==
  /\ Free(s)
  /\ LET r == [Idle EXCEPT !.op = "leaveTeam", !.user = u, !.arg = id]
         team == teamById(id) IN
       reqs' = [reqs EXCEPT ![s] =
         IF team = NoTeam THEN Done(r, "404")
         ELSE IF team.status = "REGISTERED" THEN Done(r, "400 registration is complete")
         ELSE [r EXCEPT !.pc = "teamSave", !.team = team]]
  /\ started' = IF reqs'[s].pc = "done" THEN started ELSE started + 1
  /\ UNCHANGED <<event, registrations, teams, nextRegId, nextTeamId, now>>

\* Team.findById and the checks (lines 238-255).
leaveTeam_Start(s, u, id) ==
  /\ Free(s)
  /\ LET r == [Idle EXCEPT !.op = "leaveTeam", !.user = u, !.arg = id]
         team == teamById(id) IN
       reqs' = [reqs EXCEPT ![s] =
         IF team = NoTeam THEN Done(r, "404")
         ELSE IF team.status = "REGISTERED" THEN Done(r, "400 registration is complete")
         ELSE IF team.teamLeader = u THEN Done(r, "400 team leader cannot leave")
         ELSE [r EXCEPT !.pc = "teamSave", !.team = team]]
  /\ started' = IF reqs'[s].pc = "done" THEN started ELSE started + 1
  /\ UNCHANGED <<event, registrations, teams, nextRegId, nextTeamId, now>>

\* members is replaced by the filtered array and the status reset (lines
\* 257-266).  A replaced array is written under a test of the version the
\* handler loaded, and save throws when the stored version differs; an array
\* the filter left as it was is not written.
leaveTeam_Save(s) ==
  /\ Running(s, "leaveTeam", "teamSave")
  /\ LET r == reqs[s]
         members == without(r.team.members, r.user)
         replaced == members # r.team.members
         stale == replaced /\ teamById(r.team.id).v # r.team.v IN
       /\ teams' = IF stale THEN teams
                   ELSE {IF t.id = r.team.id
                         THEN [t EXCEPT !.members = IF replaced THEN members ELSE @,
                                        !.v = IF replaced THEN @ + 1 ELSE @,
                                        !.status = IF r.team.status = "COMPLETE" THEN "FORMING" ELSE @]
                         ELSE t : t \in teams}
       /\ reqs' = [reqs EXCEPT ![s] = Done(r, IF stale THEN "500" ELSE "200")]
  /\ UNCHANGED <<event, registrations, nextRegId, nextTeamId, started, now>>

\* ------------------------------------------------------------ cancelTeam
\* Team.findById and the checks (lines 281-296).
cancelTeam_Start(s, u, id) ==
  /\ Free(s)
  /\ LET r == [Idle EXCEPT !.op = "cancelTeam", !.user = u, !.arg = id]
         team == teamById(id) IN
       reqs' = [reqs EXCEPT ![s] =
         IF team = NoTeam THEN Done(r, "404")
         ELSE IF team.teamLeader # u THEN Done(r, "403")
         ELSE IF team.status = "REGISTERED" THEN Done(r, "400 after registration")
         ELSE [r EXCEPT !.pc = "teamSave", !.team = team]]
  /\ started' = IF reqs'[s].pc = "done" THEN started ELSE started + 1
  /\ UNCHANGED <<event, registrations, teams, nextRegId, nextTeamId, now>>

\* team.status = "CANCELLED"; team.save() (lines 298-299).
cancelTeam_Save(s) ==
  /\ Running(s, "cancelTeam", "teamSave")
  /\ teams' = {IF t.id = reqs[s].team.id /\ reqs[s].team.status # "CANCELLED"
               THEN [t EXCEPT !.status = "CANCELLED"] ELSE t : t \in teams}
  /\ reqs' = [reqs EXCEPT ![s] = Done(reqs[s], "200")]
  /\ UNCHANGED <<event, registrations, nextRegId, nextTeamId, started, now>>

\* ------------------------------------------------------- event.save()
\* The paths of the loaded event `snap` that the handler changed to get `doc`
\* are written over the stored event.
mergeEvent(db, snap, doc) == [f \in DOMAIN db |-> IF doc[f] # snap[f] THEN doc[f] ELSE db[f]]

\* ----------------------------------------------------------- publishEvent
\* Event.findById and the checks (lines 153-167).  The title is always set.
publishEvent_Start(s, actor) ==
  /\ Free(s)
  /\ LET r == [Idle EXCEPT !.op = "publishEvent", !.user = actor] IN
       reqs' = [reqs EXCEPT ![s] =
         IF actor # Organizer THEN Done(r, "403")
         ELSE IF event.status = "PUBLISHED" THEN Done(r, "400 already published")
         ELSE IF event.eventStartDate = 0 THEN Done(r, "400 start date required")
         ELSE [r EXCEPT !.pc = "eventSave", !.ev = event]]
  /\ started' = IF reqs'[s].pc = "done" THEN started ELSE started + 1
  /\ UNCHANGED <<event, registrations, teams, nextRegId, nextTeamId, now>>

\* event.status = 'PUBLISHED'; event.save() (lines 169-170); then the post
\* to the webhook inside its own try block (lines 173-248).
publishEvent_Save(s) ==
  /\ Running(s, "publishEvent", "eventSave")
  /\ event' = mergeEvent(event, reqs[s].ev, [reqs[s].ev EXCEPT !.status = "PUBLISHED"])
  /\ \E outcome \in Outcomes : reqs' = [reqs EXCEPT ![s] = Dispatch(reqs[s], "200", outcome)]
  /\ UNCHANGED <<registrations, teams, nextRegId, nextTeamId, started, now>>

\* ------------------------------------------------------ changeEventStatus
validStatus == {"ONGOING", "CLOSED", "COMPLETED", "CANCELLED"}

\* Event.findById and the checks (lines 355-364).
changeEventStatus_Start(s, actor, status) ==
  /\ Free(s)
  /\ LET r == [Idle EXCEPT !.op = "changeEventStatus", !.user = actor, !.key = status] IN
       reqs' = [reqs EXCEPT ![s] =
         IF actor # Organizer THEN Done(r, "403")
         ELSE IF status \notin validStatus THEN Done(r, "400 invalid status")
         ELSE [r EXCEPT !.pc = "eventSave", !.ev = event]]
  /\ started' = IF reqs'[s].pc = "done" THEN started ELSE started + 1
  /\ UNCHANGED <<event, registrations, teams, nextRegId, nextTeamId, now>>

\* event.status = status; event.save() (lines 366-367).
changeEventStatus_Save(s) ==
  /\ Running(s, "changeEventStatus", "eventSave")
  /\ event' = mergeEvent(event, reqs[s].ev, [reqs[s].ev EXCEPT !.status = reqs[s].key])
  /\ reqs' = [reqs EXCEPT ![s] = Done(reqs[s], "200")]
  /\ UNCHANGED <<registrations, teams, nextRegId, nextTeamId, started, now>>

\* -------------------------------------------------------------- editEvent
\* The request body is one key with a value that is set; of the keys a draft
\* accepts, these five are modelled.  maxParticipants 0 in the event is a
\* limit that is not set.
allowedFields(ev) ==
  IF ev.status = "DRAFT"
    THEN {"description", "registrationDeadline", "maxParticipants", "formSchema", "fee"}
  ELSE IF ev.status = "PUBLISHED" THEN {"description", "registrationDeadline", "maxParticipants"}
  ELSE {}

\* The refusals of editEvent, in the order of the code (lines 105-128).
editRefusal(ev, key, value) ==
  IF ev.status = "PUBLISHED" /\ key = "maxParticipants" /\ ev.maxParticipants # 0
       /\ value < ev.maxParticipants
    THEN "400 cannot decrease participant limit"
  ELSE IF key = "registrationDeadline" /\ ev.eventEndDate # 0 /\ value > ev.eventEndDate
    THEN "400 deadline after end date"
  ELSE IF key # "registrationDeadline" /\ ev.status \in {"ONGOING", "COMPLETED", "CLOSED"}
    THEN "400 cannot edit"
  ELSE IF key # "registrationDeadline" /\ ev.status = "CANCELLED"
    THEN "400 cannot edit cancelled"
  ELSE IF ev.formLocked /\ key = "formSchema" THEN "400 form schema is locked"
  ELSE ""

\* Object.assign(event, cleanedUpdates) (lines 131-139).
assignUpdates(ev, key, value) == IF key \in allowedFields(ev) THEN [ev EXCEPT ![key] = value] ELSE ev

\* Event.findById and the checks (lines 87-128).
editEvent_Start(s, actor, key, value) ==
  /\ Free(s)
  /\ LET r == [Idle EXCEPT !.op = "editEvent", !.user = actor, !.key = key, !.value = value] IN
       reqs' = [reqs EXCEPT ![s] =
         IF actor # Organizer THEN Done(r, "403")
         ELSE IF editRefusal(event, key, value) # "" THEN Done(r, editRefusal(event, key, value))
         ELSE [r EXCEPT !.pc = "eventSave", !.ev = event]]
  /\ started' = IF reqs'[s].pc = "done" THEN started ELSE started + 1
  /\ UNCHANGED <<event, registrations, teams, nextRegId, nextTeamId, now>>

\* event.save() (line 141).
editEvent_Save(s) ==
  /\ Running(s, "editEvent", "eventSave")
  /\ event' = mergeEvent(event, reqs[s].ev, assignUpdates(reqs[s].ev, reqs[s].key, reqs[s].value))
  /\ reqs' = [reqs EXCEPT ![s] = Done(reqs[s], "200")]
  /\ UNCHANGED <<registrations, teams, nextRegId, nextTeamId, started, now>>

\* ----------------------------------------------------- editPublishedEvent
\* The assignments of lines 388-394 for a body of one key: a limit is taken
\* when it is not below the stored one, and no number is at least a limit
\* that is not set.
assignPublished(ev, key, value) ==
  IF ev.status # "PUBLISHED" THEN ev
  ELSE IF key = "maxParticipants"
    THEN IF ev.maxParticipants # 0 /\ value >= ev.maxParticipants
           THEN [ev EXCEPT !.maxParticipants = value] ELSE ev
  ELSE [ev EXCEPT ![key] = value]

\* Event.findById and the checks (lines 381-396).
editPublishedEvent_Start(s, actor, key, value) ==
  /\ Free(s)
  /\ LET r == [Idle EXCEPT !.op = "editPublishedEvent", !.user = actor, !.key = key,
                           !.value = value] IN
       reqs' = [reqs EXCEPT ![s] =
         IF actor # Organizer THEN Done(r, "403")
         ELSE IF event.status \in {"ONGOING", "COMPLETED"} THEN Done(r, "400 cannot edit")
         ELSE [r EXCEPT !.pc = "eventSave", !.ev = event]]
  /\ started' = IF reqs'[s].pc = "done" THEN started ELSE started + 1
  /\ UNCHANGED <<event, registrations, teams, nextRegId, nextTeamId, now>>

\* event.save() (line 398).
editPublishedEvent_Save(s) ==
  /\ Running(s, "editPublishedEvent", "eventSave")
  /\ event' = mergeEvent(event, reqs[s].ev, assignPublished(reqs[s].ev, reqs[s].key, reqs[s].value))
  /\ reqs' = [reqs EXCEPT ![s] = Done(reqs[s], "200")]
  /\ UNCHANGED <<registrations, teams, nextRegId, nextTeamId, started, now>>

\* ------------------------------------------------------- specifications
RegUsers == {"A", "B"}

Orders == {NoOrder} \cup {[NoOrder EXCEPT !.sku = "TSHIRT", !.quantity = q] : q \in 1..MaxQty}

RegIds == {r.id : r \in registrations}

\* Who sends the organizer's requests: the event's organizer, or another one.
Actors == {Organizer, "other"}

registerForEvent(s) ==
  \/ \E u \in RegUsers : registerForEvent_Start(s, u)
  \/ register_FindExisting(s)
  \/ register_DeleteOne(s)
  \/ register_CountDocuments(s)
  \/ registerForEvent_Save(s)
  \/ registerForEvent_CountAll(s)
  \/ registerForEvent_LockForm(s)

registerForMerchEvent(s) ==
  \/ \E u \in RegUsers, o \in Orders : registerForMerchEvent_Start(s, u, o)
  \/ registerForMerchEvent_Create(s)

cancelRegistration(s) ==
  \/ \E u \in RegUsers, id \in RegIds : cancelRegistration_Start(s, u, id)
  \/ cancelRegistration_Save(s)

uploadPaymentProof(s) ==
  \/ \E u \in RegUsers, id \in RegIds : uploadPaymentProof_Start(s, u, id)
  \/ uploadPaymentProof_Save(s)

approvePayment(s) ==
  \/ \E actor \in Actors, id \in RegIds : approvePayment_Start(s, actor, id)
  \/ approvePayment_FindEvent(s)
  \/ approvePayment_EventSave(s)
  \/ approvePayment_Save(s)

rejectPayment(s) ==
  \/ \E id \in RegIds : rejectPayment_Start(s, Organizer, id)
  \/ rejectPayment_Save(s)

InitDb ==
  /\ registrations = {}
  /\ teams = {}
  /\ nextRegId = 1
  /\ nextTeamId = 1
  /\ reqs = [s \in Slots |-> Idle]
  /\ started = 0
  /\ now = 1

\* The event as the organizer configured and published it: a NORMAL event
\* with or without a seat limit and a fee.
Init ==
  /\ InitDb
  /\ \E n \in 0..MaxSeats, f \in 0..1 :
       event = [status |-> "PUBLISHED", type |-> "NORMAL", allowTeams |-> FALSE,
                minTeamSize |-> 0, maxTeamSize |-> 0, maxParticipants |-> n, fee |-> f,
                formLocked |-> FALSE, stock |-> 0, purchaseLimitPerUser |-> 0,
                configuredStock |-> 0, description |-> 0,
                registrationDeadline |-> 0, eventStartDate |-> MaxTime, eventEndDate |-> MaxTime,
                eligibility |-> {}, formSchema |-> 0]

Next ==
  \E s \in Slots :
    \/ registerForEvent(s)
    \/ cancelRegistration(s)
    \/ \E u \in RegUsers, id \in RegIds : uploadPaymentProof_Start(s, u, id)
    \/ \E id \in RegIds : approvePayment_Start(s, Organizer, id)
    \/ approvePayment_FindEvent(s)
    \/ rejectPayment(s)
    \/ Respond(s)

Spec == Init /\ [][Next]_vars

\* A MERCH event with one item of one variant, with or without a fee, and no
\* seat limit.
InitMerch ==
  /\ InitDb
  /\ \E k \in (0..MaxStock) \cup {-1}, f \in 0..1 :
       event = [status |-> "PUBLISHED", type |-> "MERCH", allowTeams |-> FALSE,
                minTeamSize |-> 0, maxTeamSize |-> 0, maxParticipants |-> 0, fee |-> f,
                formLocked |-> FALSE, stock |-> k, purchaseLimitPerUser |-> 0,
                configuredStock |-> k, description |-> 0,
                registrationDeadline |-> 0, eventStartDate |-> MaxTime, eventEndDate |-> MaxTime,
                eligibility |-> {}, formSchema |-> 0]

NextMerch ==
  \E s \in Slots :
    \/ registerForMerchEvent(s)
    \/ register_FindExisting(s)
    \/ register_DeleteOne(s)
    \/ register_CountDocuments(s)
    \/ cancelRegistration(s)
    \/ uploadPaymentProof(s)
    \/ approvePayment(s)
    \/ rejectPayment(s)
    \/ Respond(s)

SpecMerch == InitMerch /\ [][NextMerch]_vars

\* The approval phase of a MERCH event: A and B have each placed an order the
\* stock allowed (registerForMerchEvent) and A, and maybe B, has uploaded a
\* payment proof (uploadPaymentProof); nothing is approved yet.
withProof(r, proof) == [r EXCEPT !.order.paymentProof = proof]

InitOrders ==
  /\ teams = {}
  /\ nextTeamId = 1
  /\ nextRegId = 3
  /\ reqs = [s \in Slots |-> Idle]
  /\ started = 0
  /\ now = 1
  /\ \E k \in 1..MaxStock :
       event = [status |-> "PUBLISHED", type |-> "MERCH", allowTeams |-> FALSE,
                minTeamSize |-> 0, maxTeamSize |-> 0, maxParticipants |-> 0, fee |-> 1,
                formLocked |-> FALSE, stock |-> k, purchaseLimitPerUser |-> 0,
                configuredStock |-> k, description |-> 0,
                registrationDeadline |-> 0, eventStartDate |-> MaxTime, eventEndDate |-> MaxTime,
                eligibility |-> {}, formSchema |-> 0]
  /\ \E oA, oB \in Orders \ {NoOrder}, proofB \in BOOLEAN :
       /\ orderRefusal(event, oA) = "" /\ orderRefusal(event, oB) = ""
       /\ registrations = {withProof(newMerchRegistration(1, "A", event, oA), TRUE),
                           withProof(newMerchRegistration(2, "B", event, oB), proofB)}

NextOrders ==
  \E s \in Slots :
    \/ uploadPaymentProof(s)
    \/ approvePayment(s)
    \/ rejectPayment(s)
    \/ cancelRegistration(s)
    \/ Respond(s)

SpecOrders == InitOrders /\ [][NextOrders]_vars

\* The quantities a request body can carry: the handler asks only that
\* order.quantity is a number (line 454), and the order schema gives quantity
\* no minimum.
Quantities == -1..MaxQty

placeOrder(s) ==
  \/ \E u \in {"A"}, q \in Quantities :
       registerForMerchEvent_Start(s, u, [NoOrder EXCEPT !.sku = "TSHIRT", !.quantity = q])
  \/ register_FindExisting(s)
  \/ register_DeleteOne(s)
  \/ register_CountDocuments(s)
  \/ registerForMerchEvent_Create(s)

\* A published MERCH event with a fee, a stocked variant and maybe a purchase
\* limit; nobody has ordered yet.
InitStock ==
  /\ InitDb
  /\ \E k \in 1..MaxStock, limit \in 0..1 :
       event = [status |-> "PUBLISHED", type |-> "MERCH", allowTeams |-> FALSE,
                minTeamSize |-> 0, maxTeamSize |-> 0, maxParticipants |-> 0, fee |-> 1,
                formLocked |-> FALSE, stock |-> k, purchaseLimitPerUser |-> limit,
                configuredStock |-> k, description |-> 0,
                registrationDeadline |-> 0, eventStartDate |-> MaxTime, eventEndDate |-> MaxTime,
                eligibility |-> {}, formSchema |-> 0]

NextStock ==
  \E s \in Slots :
    \/ placeOrder(s)
    \/ uploadPaymentProof(s)
    \/ approvePayment(s)
    \/ rejectPayment(s)
    \/ cancelRegistration(s)
    \/ Respond(s)

SpecStock == InitStock /\ [][NextStock]_vars

\* An event that takes teams of minTeamSize to maxTeamSize members.
TeamIds == {t.id : t \in teams}

createTeam(s) ==
  \/ \E u \in Participants, size \in 1..MaxTeamSize + 1 : createTeam_Start(s, u, size)
  \/ createTeam_FindTeam(s)
  \/ createTeam_FindRegistration(s)
  \/ createTeam_Save(s)

joinTeam(s) ==
  \/ \E u \in Participants, code \in TeamIds : joinTeam_Start(s, u, code)
  \/ joinTeam_FindOtherTeam(s)
  \/ joinTeam_FindRegistration(s)
  \/ joinTeam_Save(s)
  \/ \E failAt \in 0..MaxTeamSize : registerTeam_InsertMany(s, failAt)
  \/ \E fails \in BOOLEAN : registerTeam_Save(s, fails)

leaveTeam(s) ==
  \/ \E u \in Participants, id \in TeamIds : leaveTeam_Start(s, u, id)
  \/ leaveTeam_Save(s)

cancelTeam(s) ==
  \/ \E u \in Participants, id \in TeamIds : cancelTeam_Start(s, u, id)
  \/ cancelTeam_Save(s)

InitTeam ==
  /\ InitDb
  /\ \E m \in {0, 2} :
       event = [status |-> "PUBLISHED", type |-> "NORMAL", allowTeams |-> TRUE,
                minTeamSize |-> m, maxTeamSize |-> MaxTeamSize, maxParticipants |-> 0,
                fee |-> 0, formLocked |-> FALSE, stock |-> 0, purchaseLimitPerUser |-> 0,
                configuredStock |-> 0, description |-> 0,
                registrationDeadline |-> 0, eventStartDate |-> MaxTime, eventEndDate |-> MaxTime,
                eligibility |-> {}, formSchema |-> 0]

NextTeam ==
  \E s \in Slots :
    \/ createTeam(s)
    \/ joinTeam(s)
    \/ leaveTeam(s)
    \/ cancelTeam(s)
    \/ Respond(s)

SpecTeam == InitTeam /\ [][NextTeam]_vars

\* Check-in at the door of a NORMAL event with or without a fee.  Dates are
\* 1..MaxTime, a date that is not set is 0, and the clock starts at 1.
QrPayloads == {[NoQr EXCEPT !.registrationId = id] : id \in RegIds}

checkIn(s) ==
  \/ \E actor \in Actors, payload \in QrPayloads : checkIn_Start(s, actor, payload)
  \/ checkIn_Save(s)

InitCheckIn ==
  /\ InitDb
  /\ \E f \in 0..1 :
       event = [NoEvent EXCEPT !.status = "PUBLISHED", !.fee = f, !.eventStartDate = MaxTime,
                               !.eventEndDate = MaxTime]

NextCheckIn ==
  \/ Tick
  \/ \E s \in Slots :
       \/ registerForEvent(s)
       \/ cancelRegistration(s)
       \/ checkIn(s)
       \/ Respond(s)

SpecCheckIn == InitCheckIn /\ [][NextCheckIn]_vars

\* Registration for an event the organizer configured one way or another:
\* NORMAL or MERCH, still a draft, published or closed, for teams or not,
\* with or without a registration deadline and an eligibility list.
InitGate ==
  /\ InitDb
  /\ \E type \in {"NORMAL", "MERCH"}, status \in {"DRAFT", "PUBLISHED", "CLOSED"},
        allowTeams \in BOOLEAN, deadline \in {0, 1}, start \in {1, MaxTime},
        eligibility \in {{}, {"IIIT"}} :
       event = [NoEvent EXCEPT !.type = type, !.status = status, !.allowTeams = allowTeams,
                               !.minTeamSize = IF allowTeams THEN 2 ELSE 0,
                               !.maxTeamSize = IF allowTeams THEN MaxTeamSize ELSE 0,
                               !.registrationDeadline = deadline, !.eventStartDate = start,
                               !.eventEndDate = MaxTime, !.eligibility = eligibility,
                               !.stock = IF type = "MERCH" THEN 1 ELSE 0,
                               !.configuredStock = IF type = "MERCH" THEN 1 ELSE 0]

NextGate ==
  \/ Tick
  \/ \E s \in Slots :
       \/ registerForEvent(s)
       \/ registerForMerchEvent(s)
       \/ cancelRegistration(s)
       \/ Respond(s)

SpecGate == InitGate /\ [][NextGate]_vars

\* The life of an event from the draft createEvent stored: the organizer (or
\* somebody else) edits it, publishes it and moves its status, while
\* participants register and cancel.
Updates ==
  {<<"description", 1>>, <<"formSchema", 1>>, <<"fee", 1>>}
    \cup {<<"registrationDeadline", d>> : d \in {1, MaxTime + 1}}
    \cup {<<"maxParticipants", n>> : n \in 1..MaxSeats}

PublishedUpdates == {u \in Updates : u[1] \in {"description", "registrationDeadline", "maxParticipants"}}

publishEvent(s) ==
  \/ \E actor \in Actors : publishEvent_Start(s, actor)
  \/ publishEvent_Save(s)

changeEventStatus(s) ==
  \/ \E actor \in Actors, status \in validStatus \cup {"DRAFT"} : changeEventStatus_Start(s, actor, status)
  \/ changeEventStatus_Save(s)

editEvent(s) ==
  \/ \E actor \in Actors, u \in Updates : editEvent_Start(s, actor, u[1], u[2])
  \/ editEvent_Save(s)

editPublishedEvent(s) ==
  \/ \E actor \in Actors, u \in PublishedUpdates : editPublishedEvent_Start(s, actor, u[1], u[2])
  \/ editPublishedEvent_Save(s)

InitLifecycle ==
  /\ InitDb
  /\ \E n \in {0, MaxSeats} :
       event = [NoEvent EXCEPT !.status = "DRAFT", !.maxParticipants = n,
                               !.eventStartDate = MaxTime, !.eventEndDate = MaxTime]

NextLifecycle ==
  \E s \in Slots :
    \/ publishEvent(s)
    \/ changeEventStatus(s)
    \/ editEvent(s)
    \/ editPublishedEvent(s)
    \/ registerForEvent(s)
    \/ cancelRegistration(s)
    \/ Respond(s)

SpecLifecycle == InitLifecycle /\ [][NextLifecycle]_vars

\* Team registration for an event that takes teams and is still a draft, or
\* published with a registration deadline, or published for IIIT participants.
TeamGates == {<<"DRAFT", 0, {}>>, <<"PUBLISHED", 1, {}>>, <<"PUBLISHED", 0, {"IIIT"}>>}

InitTeamGate ==
  /\ InitDb
  /\ \E gate \in TeamGates :
       LET status == gate[1]
           deadline == gate[2]
           eligibility == gate[3] IN
       event = [NoEvent EXCEPT !.status = status, !.allowTeams = TRUE, !.minTeamSize = 2,
                               !.maxTeamSize = MaxTeamSize, !.registrationDeadline = deadline,
                               !.eventStartDate = MaxTime, !.eventEndDate = MaxTime,
                               !.eligibility = eligibility]

NextTeamGate ==
  \/ Tick
  \/ \E s \in Slots :
       \/ createTeam(s)
       \/ joinTeam(s)
       \/ Respond(s)

SpecTeamGate == InitTeamGate /\ [][NextTeamGate]_vars

\* ================================================================ claims
Quiescent == \A s \in Slots : reqs[s] = Idle

RECURSIVE quantityOf(_)
\* Sum of order.quantity over a set of registrations.
quantityOf(S) ==
  IF S = {} THEN 0
  ELSE LET r == CHOOSE x \in S : TRUE IN r.order.quantity + quantityOf(S \ {r})

approvedOrders ==
  {r \in registrations : r.order.sku = "TSHIRT" /\ r.order.paymentStatus = "APPROVED"}

rowsOfTeam(t) == {r \in registrations : r.teamId = t.id}

acceptedUsers(t) == {accepted(t.members)[i].userId : i \in 1..Len(accepted(t.members))}

\* C1: an event with maxParticipants = N never has more than N registrations
\* whose status is not CANCELLED.
C1_SeatLimit ==
  event.maxParticipants # 0 => countNonCancelled <= event.maxParticipants

\* C2: the last seat goes to one request only: a participant without a row
\* gets one inserted only while the event still has a free seat, so a request
\* racing for the seat another participant has taken is refused and the count
\* ends at N.
C2_LastSeatTakenOnce ==
  [][(/\ Cardinality(registrations') > Cardinality(registrations)
      /\ \A r \in registrations' \ registrations : RowsOf(r.participantId) = {}
      /\ event.maxParticipants # 0)
       => countNonCancelled < event.maxParticipants]_vars

\* C3: there is at most one registration row per (event, participant) pair.
C3_OneRowPerPair == \A p \in Participants : Cardinality(RowsOf(p)) <= 1

C5_DecrementedOncePerApproval ==
  Quiescent => event.configuredStock - event.stock = quantityOf(approvedOrders)

\* C6: a team never has more ACCEPTED members than its teamSize, nor a user
\* twice among its members, so of two joinTeam requests racing for the last
\* slot only one is answered with success.
C6_LastSlotTakenOnce ==
  \A t \in teams :
    /\ Len(accepted(t.members)) <= t.teamSize
    /\ \A i, j \in 1..Len(t.members) : t.members[i].userId = t.members[j].userId => i = j

\* C7: batch registration is all-or-nothing: the registrations carrying a
\* team's id are none, or exactly one per ACCEPTED member; and a joinTeam that
\* ends in a storage failure leaves none of them and the team not COMPLETE.
C7_BatchAllOrNothing ==
  \A t \in teams :
    /\ \/ rowsOfTeam(t) = {}
       \/ /\ \A u \in acceptedUsers(t) :
               Cardinality({r \in rowsOfTeam(t) : r.participantId = u}) = 1
          /\ \A r \in rowsOfTeam(t) : r.participantId \in acceptedUsers(t)
    /\ \A s \in Slots :
         (reqs[s].op = "joinTeam" /\ reqs[s].pc = "done" /\ reqs[s].res = "500"
            /\ reqs[s].arg = t.id)
           => (rowsOfTeam(t) = {} /\ t.status # "COMPLETE")

\* C8: a REGISTERED team has exactly one registration per ACCEPTED member, all
\* carrying its id, created CONFIRMED and with pairwise distinct ticket ids; and
\* the joinTeam that fills the team answers with the team REGISTERED.
C8_RegisteredTeamHasItsRegistrations ==
  \A t \in teams :
    /\ t.status = "REGISTERED" =>
         /\ \A u \in acceptedUsers(t) :
              Cardinality({r \in registrations : r.participantId = u}) = 1
         /\ \A u \in acceptedUsers(t) : \A r \in RowsOf(u) :
              r.teamId = t.id /\ r.qrPayload # NoQr
         /\ \A r, q \in rowsOfTeam(t) : r.ticketId = q.ticketId => r = q
    /\ \A s \in Slots :
         (reqs[s].op = "joinTeam" /\ reqs[s].pc = "done" /\ reqs[s].res = "200"
            /\ reqs[s].arg = t.id /\ Len(accepted(t.members)) >= t.teamSize)
           => t.status = "REGISTERED"

\* C9: a team that is COMPLETE or REGISTERED has exactly teamSize ACCEPTED
\* members.
C9_CompleteTeamIsFull ==
  \A t \in teams :
    t.status \in {"COMPLETE", "REGISTERED"} => Len(accepted(t.members)) = t.teamSize

\* C10: a participant is leader or member of at most one team that is not
\* CANCELLED, and then holds no individual PENDING or CONFIRMED registration.
C10_OneActiveTeamPerParticipant ==
  \A u \in Participants :
    /\ Cardinality(activeTeamsOf(u, 0)) <= 1
    /\ activeTeamsOf(u, 0) # {} =>
         ~\E r \in RowsOf(u) : r.teamId = 0 /\ r.status \in {"PENDING", "CONFIRMED"}

\* The orders of the variant whose stock is taken: APPROVED, and not released
\* by a cancellation.
heldOrders == {r \in approvedOrders : r.status # "CANCELLED"}

\* A cancelRegistration that its owner sent for an approved merchandise order
\* has been answered: the registration is CANCELLED and its units are back.
cancelledAndReleased ==
  \A s \in Slots :
    (reqs[s].op = "cancelRegistration" /\ reqs[s].pc = "done") =>
      LET row == findById(reqs[s].arg) IN
        (row.participantId = reqs[s].user /\ row \in approvedOrders) =>
          /\ row.status = "CANCELLED"
          /\ event.configuredStock - event.stock = quantityOf(heldOrders)

\* C11: approvePayment followed by the cancellation of the registration gives
\* the variant the stock it had before the approval, once; and a step of a
\* cancelRegistration on an order that was not approved leaves the stock alone.
C11_ApproveCancelRoundTrip ==
  [][/\ cancelledAndReleased'
     /\ \A s \in Slots :
          (reqs[s].op = "cancelRegistration" /\ reqs'[s] # reqs[s]
             /\ reqs[s].reg.order.paymentStatus # "APPROVED")
            => event'.stock = event.stock]_vars

\* What the claim has approvePayment refuse, on the registration as it was when
\* the request came in and on the stock the handler reads.
mustRefuse(r) ==
  \/ r.user # Organizer
  \/ ~r.reg.order.paymentProof
  \/ r.reg.order.paymentStatus = "APPROVED"
  \/ r.reg.order.sku = "TSHIRT" /\ event.stock < r.reg.order.quantity

\* C12: an approvePayment sent by someone who is not the organizer, or for a
\* registration without payment proof or already APPROVED, or for more units
\* than the variant has, is answered with a refusal and changes neither the
\* registrations nor the event.
C12_RefusedApprovalChangesNothing ==
  [][\A s \in Slots :
       (reqs[s].op = "approvePayment" /\ reqs[s].pc = "findEvent" /\ reqs'[s] # reqs[s]
          /\ reqs[s].reg.order # NoOrder /\ mustRefuse(reqs[s]))
         => /\ reqs'[s].pc = "done"
            /\ reqs'[s].res \in {"403", "400 already approved", "400 no payment proof",
                                 "400 insufficient stock"}
            /\ event' = event
            /\ registrations' = registrations]_vars

\* Stock 1 and two orders of 1 unit: the first approval has taken the unit and
\* the second one is answered 'Insufficient stock', its registration PENDING.
C12_Witness ==
  /\ event.configuredStock = 1 /\ event.stock = 0
  /\ \E s \in Slots :
       /\ reqs[s].op = "approvePayment" /\ reqs[s].pc = "done"
       /\ reqs[s].res = "400 insufficient stock"
       /\ \E first, second \in registrations :
            /\ first.id # second.id /\ second.id = reqs[s].arg
            /\ first.order.paymentStatus = "APPROVED" /\ first.status = "CONFIRMED"
            /\ second.order.paymentStatus = "PENDING" /\ second.status = "PENDING"
            /\ second.order.quantity = 1

\* C13: placing an order, uploading a proof and rejecting a payment never
\* touch the stock: a step that changes the stock of the variant is a step of
\* an approvePayment (or of a cancelRegistration releasing it).
C13_OnlyApprovalTouchesStock ==
  [][event'.stock # event.stock =>
       \E s \in Slots :
         /\ reqs[s].op \in {"approvePayment", "cancelRegistration"}
         /\ reqs'[s] # reqs[s]]_vars

\* Two PENDING orders of one unit each on a variant with a stock of 1, which
\* is still what the organizer configured.
C13_Witness ==
  /\ event.stock = 1 /\ event.configuredStock = 1
  /\ \E a, b \in registrations :
       /\ a.participantId # b.participantId
       /\ \A r \in {a, b} :
            /\ r.order.sku = "TSHIRT" /\ r.order.quantity = 1
            /\ r.order.paymentStatus = "PENDING" /\ r.status = "PENDING"

\* C14: an uploadPaymentProof that the owner of a registration sends for its
\* order, not APPROVED, is answered with success: the proof is stored and the
\* order is PENDING, also for the REGISTRATION_FEE order of a NORMAL event.
C14_OwnerCanUploadProof ==
  \A s \in Slots :
    (reqs[s].op = "uploadPaymentProof" /\ reqs[s].pc = "done") =>
      LET row == findById(reqs[s].arg) IN
        (row.participantId = reqs[s].user /\ row.order # NoOrder
           /\ row.order.paymentStatus # "APPROVED")
          => /\ reqs[s].res = "200"
             /\ row.order.paymentProof
             /\ row.order.paymentStatus = "PENDING"

\* The answers with which registerForMerchEvent turns a request down.
merchRefusals ==
  {"403 not published", "400 not a merchandise event", "400 team registration required",
   "400 already registered", "400 maximum participant limit", "400 invalid item",
   "400 exceeds available stock", "400 purchase limit"}

\* C15: a registerForMerchEvent that is not turned down creates a registration:
\* CONFIRMED with a qrPayload when nothing is due, PENDING with a PENDING order
\* and no qrPayload when an amount is due.
C15_MerchRegistrationByTotal ==
  \A s \in Slots :
    (reqs[s].op = "registerForMerchEvent" /\ reqs[s].pc = "done"
       /\ reqs[s].res \notin merchRefusals) =>
      LET row == findById(reqs[s].arg) IN
        /\ reqs[s].res = "201"
        /\ row.participantId = reqs[s].user
        /\ row.order.amountPaid = 0 => (row.status = "CONFIRMED" /\ row.qrPayload # NoQr)
        /\ row.order.amountPaid > 0 =>
             /\ row.status = "PENDING" /\ row.order.paymentStatus = "PENDING"
             /\ row.qrPayload = NoQr

\* C16: the registerForEvent that gets to its save creates one registration,
\* of its participant: CONFIRMED with a ticket id and a qrPayload and no order
\* when the event is free; PENDING without qrPayload and with a PENDING
\* REGISTRATION_FEE order of the fee's amount when it is not.
C16_RegistrationByFee ==
  [][\A s \in Slots :
       (reqs[s].op = "registerForEvent" /\ reqs[s].pc = "save" /\ reqs'[s].pc # "save") =>
         \E row \in registrations' :
           /\ row \notin registrations
           /\ registrations' = registrations \cup {row}
           /\ row.id = reqs'[s].arg /\ row.participantId = reqs[s].user
           /\ row.ticketId # 0
           /\ IF event.fee = 0
                THEN row.status = "CONFIRMED" /\ row.qrPayload # NoQr /\ row.order = NoOrder
                ELSE /\ row.status = "PENDING" /\ row.qrPayload = NoQr
                     /\ row.order.sku = "REGISTRATION_FEE"
                     /\ row.order.amountPaid = event.fee
                     /\ row.order.paymentStatus = "PENDING"]_vars

\* A registerForEvent on an event with a fee has been answered 201 and its
\* registration is PENDING with the REGISTRATION_FEE order.
C16_Witness ==
  \E s \in Slots :
    /\ reqs[s].op = "registerForEvent" /\ reqs[s].pc = "done" /\ reqs[s].res = "201"
    /\ event.fee > 0
    /\ findById(reqs[s].arg).status = "PENDING"
    /\ findById(reqs[s].arg).order.sku = "REGISTRATION_FEE"

\* A step of a registration request in slot s that stands at pc.
registerStep(s, pc) ==
  /\ reqs[s].op \in {"registerForEvent", "registerForMerchEvent"}
  /\ reqs[s].pc = pc
  /\ reqs'[s] # reqs[s]

\* C17: a participant whose registration is REJECTED or CANCELLED can register
\* again: the request goes on, and when it creates its registration the old row
\* is gone and the new one is the only row of the pair.  A participant whose
\* registration is PENDING or CONFIRMED is refused and no row changes.
C17_RegisterAgain ==
  [][\A s \in Slots :
       /\ (registerStep(s, "findExisting")
             /\ findOne(reqs[s].user).status \in {"REJECTED", "CANCELLED"})
            => reqs'[s].pc # "done"
       /\ (registerStep(s, "findExisting")
             /\ findOne(reqs[s].user).status \in {"PENDING", "CONFIRMED"})
            => /\ reqs'[s].pc = "done" /\ reqs'[s].res = "400 already registered"
               /\ registrations' = registrations
       /\ (registerStep(s, "save") /\ reqs[s].reg # NoReg /\ registrations' # registrations)
            => /\ \A r \in registrations' : r.id # reqs[s].reg.id
               /\ Cardinality({r \in registrations' : r.participantId = reqs[s].user}) = 1]_vars

after(r) ==
  IF \E q \in registrations' : q.id = r.id
  THEN CHOOSE q \in registrations' : q.id = r.id
  ELSE NoReg

\* C19: CANCELLED and REJECTED are terminal: a CANCELLED registration keeps its
\* status and a REJECTED one never becomes PENDING or CONFIRMED, until the row
\* is deleted; approvePayment and rejectPayment leave a CANCELLED row's status.
C19_TerminalStatuses ==
  [][\A r \in registrations :
       /\ r.status = "CANCELLED" => after(r).status \in {"CANCELLED", "NONE"}
       /\ r.status = "REJECTED" => after(r).status \notin {"PENDING", "CONFIRMED"}]_vars

\* C20: an order that is APPROVED stays APPROVED, and its registration is not
\* set to REJECTED, however rejectPayment and uploadPaymentProof interleave with
\* the approvePayment.
C20_ApprovedIsSticky ==
  [][\A r \in registrations :
       (r.order.paymentStatus = "APPROVED" /\ after(r) # NoReg) =>
         /\ after(r).order.paymentStatus = "APPROVED"
         /\ after(r).status # "REJECTED"]_vars

\* C21: a cancelRegistration sent by someone else than the owner, or for a
\* registration already CANCELLED, or for a MERCH registration whose order is
\* APPROVED, is refused and changes neither the registrations nor the event;
\* one answered with success was sent by the owner, has the registration
\* CANCELLED, and the registration has left the count of the event's seats.
C21_CancelRegistration ==
  [][\A s \in Slots :
       /\ (reqs[s] = Idle /\ reqs'[s].op = "cancelRegistration") =>
            LET row == findById(reqs'[s].arg) IN
              (\/ row.participantId # reqs'[s].user
               \/ row.status = "CANCELLED"
               \/ row.type = "MERCH" /\ row.order.paymentStatus = "APPROVED")
                => /\ reqs'[s].pc = "done"
                   /\ reqs'[s].res \in {"404", "403", "400 already cancelled",
                                        "400 approved merchandise order"}
                   /\ registrations' = registrations /\ event' = event
       /\ (reqs[s].pc # "done" /\ reqs'[s].op = "cancelRegistration"
             /\ reqs'[s].pc = "done" /\ reqs'[s].res = "200") =>
            LET row == findById(reqs'[s].arg) IN
              /\ row.participantId = reqs'[s].user
              /\ after(row).status = "CANCELLED"
              /\ event' = event
              /\ row.status # "CANCELLED" => countNonCancelled' = countNonCancelled - 1]_vars

\* A's cancellation of the order the organizer approved is refused, B's
\* registration being CANCELLED by an earlier cancelRegistration.
C21_Witness ==
  \E s \in Slots :
    /\ reqs[s].op = "cancelRegistration" /\ reqs[s].pc = "done"
    /\ reqs[s].res = "400 approved merchandise order"
    /\ findById(reqs[s].arg).status = "CONFIRMED"
    /\ \E r \in registrations : r.participantId # reqs[s].user /\ r.status = "CANCELLED"

\* C22: a checkIn by the organizer for a registration that is not CANCELLED and
\* was checked in before is answered 'Already checked in' and leaves attended
\* and attendedAt as the first check-in wrote them; the first one answers with
\* success and stores attended with the date it took; a checkIn for a
\* CANCELLED registration is refused and changes no registration.
C22_CheckInIdempotent ==
  [][\A s \in Slots :
       /\ (reqs[s] = Idle /\ reqs'[s].op = "checkIn" /\ reqs'[s].user = Organizer
             /\ findByTicket(reqs'[s].arg) # NoReg) =>
            LET row == findByTicket(reqs'[s].arg) IN
              /\ (row.status # "CANCELLED" /\ row.attended) =>
                   /\ reqs'[s].pc = "done" /\ reqs'[s].res = "200 Already checked in"
                   /\ registrations' = registrations
              /\ row.status = "CANCELLED" =>
                   /\ reqs'[s].pc = "done" /\ reqs'[s].res = "400 cancelled"
                   /\ registrations' = registrations
              /\ (row.status # "CANCELLED" /\ ~row.attended) => reqs'[s].pc = "save"
       /\ (reqs[s].op = "checkIn" /\ reqs[s].pc = "save" /\ reqs'[s].pc = "done"
             /\ reqs'[s].res # "500") =>
            /\ reqs'[s].res \in {"200 Already checked in", "200 Check-in successful"}
            /\ after(reqs[s].reg).attended
            /\ after(reqs[s].reg).attendedAt = reqs[s].date]_vars

\* A checkIn is answered 'Already checked in' for a registration whose
\* attendedAt is a date before the present one.
C22_Witness ==
  \E s \in Slots :
    /\ reqs[s].op = "checkIn" /\ reqs[s].pc = "done" /\ reqs[s].res = "200 Already checked in"
    /\ findByTicket(reqs[s].arg).attended
    /\ findByTicket(reqs[s].arg).attendedAt # 0
    /\ findByTicket(reqs[s].arg).attendedAt < now

\* C23: over every interleaving of checkIn requests, attendedAt of a
\* registration is written once: once it is set, no step changes it.
C23_AttendedAtWrittenOnce ==
  [][\A r \in registrations :
       (r.attendedAt # 0 /\ after(r) # NoReg) => after(r).attendedAt = r.attendedAt]_vars

\* C24: a createTeam with teamSize = 1 on an event that allows teams is
\* answered 201 and has stored a REGISTERED team whose leader has exactly
\* one CONFIRMED registration carrying the team's id.
C24_TeamOfOne ==
  \A s \in Slots :
    (reqs[s].op = "createTeam" /\ reqs[s].pc = "done" /\ reqs[s].arg = 1 /\ event.allowTeams
       /\ reqs[s].res \notin {"400 already part of a team", "400 individual registration"}) =>
      /\ reqs[s].res = "201"
      /\ \E team \in teams :
           /\ team.teamLeader = reqs[s].user /\ team.teamSize = 1 /\ team.status = "REGISTERED"
           /\ Cardinality({r \in registrations :
                             /\ r.participantId = reqs[s].user /\ r.teamId = team.id
                             /\ r.status = "CONFIRMED"}) = 1

\* The team that has t's id after the step.
teamAfter(t) == CHOOSE q \in teams' : q.id = t.id

\* C25: a cancelTeam answered with success was sent by the leader; over every
\* interleaving with joinTeam and the registration it triggers, a REGISTERED
\* team never becomes CANCELLED and a CANCELLED team stays CANCELLED.
C25_CancelTeam ==
  [][/\ \A s \in Slots :
          (reqs[s].pc # "done" /\ reqs'[s].op = "cancelTeam" /\ reqs'[s].pc = "done"
             /\ reqs'[s].res = "200") =>
            /\ teamById(reqs'[s].arg).teamLeader = reqs'[s].user
            /\ teamAfter(teamById(reqs'[s].arg)).status = "CANCELLED"
     /\ \A t \in teams :
          /\ t.status = "REGISTERED" => teamAfter(t).status # "CANCELLED"
          /\ t.status = "CANCELLED" => teamAfter(t).status = "CANCELLED"]_vars

\* C26: a leaveTeam sent by the team leader, or for a team that is REGISTERED,
\* is refused and changes no team; one answered with success leaves the team
\* without an entry of the caller, with its other members kept, and FORMING
\* when the handler found it COMPLETE, whatever other requests are in flight.
C26_LeaveTeam ==
  [][\A s \in Slots :
       /\ (reqs[s] = Idle /\ reqs'[s].op = "leaveTeam" /\ teamById(reqs'[s].arg) # NoTeam) =>
            LET team == teamById(reqs'[s].arg) IN
              (team.teamLeader = reqs'[s].user \/ team.status = "REGISTERED") =>
                /\ reqs'[s].pc = "done"
                /\ reqs'[s].res \in {"400 registration is complete", "400 team leader cannot leave"}
                /\ teams' = teams
       /\ (reqs[s].op = "leaveTeam" /\ reqs[s].pc = "teamSave" /\ reqs'[s].pc = "done"
             /\ reqs'[s].res = "200") =>
            LET stored == teamById(reqs[s].team.id) IN
              /\ reqs[s].user # stored.teamLeader
              /\ ~isMember(teamAfter(stored), reqs[s].user)
              /\ teamAfter(stored).members = without(stored.members, reqs[s].user)
              /\ reqs[s].team.status = "COMPLETE" => teamAfter(stored).status = "FORMING"]_vars

\* The date after which the event takes no registration: the registration
\* deadline or, when there is none, the start date.
closesAt(ev) == IF ev.registrationDeadline # 0 THEN ev.registrationDeadline ELSE ev.eventStartDate

\* C27: a registerForEvent or registerForMerchEvent that arrives when the
\* event is not PUBLISHED, or takes teams, or after the date registration
\* closes, is refused at once and changes no registration; and no request of
\* a participant whose type the event's non-empty eligibility list lacks ever
\* inserts a registration.
C27_RegistrationGates ==
  [][\A s \in Slots :
       /\ (reqs[s] = Idle /\ reqs'[s].op \in {"registerForEvent", "registerForMerchEvent"}
             /\ (\/ event.status # "PUBLISHED"
                 \/ event.allowTeams
                 \/ closesAt(event) # 0 /\ now > closesAt(event))) =>
            /\ reqs'[s].pc = "done" /\ reqs'[s].res # "201"
            /\ registrations' = registrations
       /\ (reqs[s].op \in {"registerForEvent", "registerForMerchEvent"} /\ reqs'[s] # reqs[s]
             /\ event.eligibility # {} /\ participantType(reqs[s].user) \notin event.eligibility) =>
            \A r \in registrations' : \E q \in registrations : q.id = r.id]_vars

\* A registration request is refused because the start date of an event
\* without a registration deadline has passed, while a participant who came
\* in time is registered.
C27_Witness ==
  \E s \in Slots :
    /\ reqs[s].op \in {"registerForEvent", "registerForMerchEvent"}
    /\ reqs[s].pc = "done" /\ reqs[s].res = "400 registration closed"
    /\ event.registrationDeadline = 0 /\ now > event.eventStartDate
    /\ \E r \in registrations : r.participantId # reqs[s].user

\* C28: once every request that registered someone has been answered, an
\* event that has a registration (individual, merchandise or of a team) has
\* formLocked = true; and formLocked never goes back to false.
C28_FormLockedByRegistration ==
  /\ []((Quiescent /\ registrations # {}) => event.formLocked)
  /\ [][event.formLocked => event'.formLocked]_vars

\* The place of a status in the order DRAFT, PUBLISHED, ONGOING, CLOSED, COMPLETED.
rank(status) ==
  CASE status = "DRAFT" -> 0
    [] status = "PUBLISHED" -> 1
    [] status = "ONGOING" -> 2
    [] status = "CLOSED" -> 3
    [] status = "COMPLETED" -> 4
    [] OTHER -> 5

\* C29: every change of the event's status goes forward in the order DRAFT,
\* PUBLISHED, ONGOING, CLOSED, COMPLETED, or to CANCELLED from a status that
\* is neither COMPLETED nor CANCELLED; so no publishEvent or changeEventStatus
\* moves it back and a COMPLETED or CANCELLED event keeps its status.
C29_StatusMovesForward ==
  [][\/ event'.status = event.status
     \/ event'.status = "CANCELLED" /\ event.status \notin {"COMPLETED", "CANCELLED"}
     \/ /\ event.status # "CANCELLED" /\ event'.status # "CANCELLED"
        /\ rank(event.status) < rank(event'.status)]_vars

\* C30: an editEvent or editPublishedEvent that found the event PUBLISHED and
\* saves to it while it is PUBLISHED changes no field other than description,
\* registrationDeadline and maxParticipants, and does not make the limit
\* stricter: it neither lowers a limit nor sets one where there was none.
C30_PublishedEdits ==
  [][\A s \in Slots :
       (reqs[s].op \in {"editEvent", "editPublishedEvent"} /\ reqs[s].pc = "eventSave"
          /\ reqs'[s].pc = "done" /\ reqs[s].ev.status = "PUBLISHED"
          /\ event.status = "PUBLISHED") =>
         /\ \A f \in DOMAIN event \ {"description", "registrationDeadline", "maxParticipants"} :
              event'[f] = event[f]
         /\ event.maxParticipants = 0 => event'.maxParticipants = 0
         /\ event.maxParticipants # 0 =>
              (event'.maxParticipants = 0 \/ event'.maxParticipants >= event.maxParticipants)]_vars

C32_TeamRegistrationPolicy ==
  [][\A r \in registrations' :
       (r.teamId # 0 /\ \A q \in registrations : q.id # r.id) =>
         /\ event.status = "PUBLISHED"
         /\ ~(closesAt(event) # 0 /\ now > closesAt(event))
         /\ ~notEligible(event, r.participantId)]_vars

\* C33: a registerForEvent or registerForMerchEvent that is refused has
\* deleted nothing: the REJECTED or CANCELLED row it found for the participant
\* is still stored when it answers.
C33_RefusalKeepsEarlierRow ==
  [][\A s \in Slots :
       (reqs[s].op \in {"registerForEvent", "registerForMerchEvent"} /\ reqs[s].pc # "done"
          /\ reqs'[s].pc = "done" /\ reqs'[s].res # "201" /\ reqs[s].reg # NoReg) =>
         \E q \in registrations' : q.id = reqs[s].reg.id]_vars

\* C34: the qrPayload stored with a CONFIRMED registration resolves, by the
\* lookup checkIn makes with it, to that registration.
C34_QrPayloadResolves ==
  \A r \in registrations :
    r.status = "CONFIRMED" => findByTicket(r.qrPayload.registrationId) = r


\* C35: the stock of the variant lies between 0 and the stock the organizer
\* configured, whatever orders are placed, approved, rejected and cancelled.
C35_StockWithinConfigured ==
  /\ event.stock >= 0
  /\ event.stock <= event.configuredStock


\* C36: a registration marked attended by checkIn is CONFIRMED at the moment
\* checkIn writes the mark; a PENDING or REJECTED one is never marked.
C36_OnlyConfirmedAttended ==
  [][\A s \in Slots :
       checkIn_Save(s) =>
         \A r \in registrations' :
           (r.id = reqs[s].reg.id /\ r.attended) => r.status = "CONFIRMED"]_vars

\* C39: checkIn answers 'Check-in successful' when the call changed attended
\* from false to true, and 'Already checked in' when it was true before.
C39_CheckInMessage ==
  [][\A s \in Slots :
       /\ checkIn_Save(s) /\ reqs'[s].res # "500"
            => reqs'[s].res = "200 Check-in successful"
       /\ (\E actor \in Actors, payload \in QrPayloads :
             /\ checkIn_Start(s, actor, payload)
             /\ findByTicket(payload.registrationId).attended)
            => reqs'[s].res = "200 Already checked in"]_vars


\* C37: the status of a registration that has an order agrees with the
\* payment status of the order: PENDING with PENDING, REJECTED with REJECTED,
\* CONFIRMED with APPROVED or with an order for which nothing is due.
C37_StatusMatchesPayment ==
  \A r \in registrations :
    r.order.sku # "NONE" =>
      /\ r.status = "PENDING" => r.order.paymentStatus = "PENDING"
      /\ r.status = "REJECTED" => r.order.paymentStatus = "REJECTED"
      /\ r.status = "CONFIRMED" =>
           (r.order.paymentStatus = "APPROVED" \/ r.order.amountPaid = 0)


\* C38: a team whose status is FORMING has fewer ACCEPTED members than its
\* teamSize.
C38_FormingTeamHasRoom ==
  \A t \in teams : t.status = "FORMING" => Len(accepted(t.members)) < t.teamSize


\* C40: the leader of a team is never changed, and is always in the members
\* of the team with status ACCEPTED, whatever joinTeam, leaveTeam and
\* cancelTeam requests are made.
C40_LeaderKept ==
  /\ [](\A t \in teams : t.teamLeader \in acceptedUsers(t))
  /\ [][\A t \in teams : teamById(t.id)'.teamLeader = t.teamLeader]_vars

\* The leader of a team another participant has joined asked to leave and
\* was refused.
C40_Witness ==
  \E s \in Slots, t \in teams :
    /\ reqs[s].op = "leaveTeam" /\ reqs[s].pc = "done"
    /\ reqs[s].res = "400 team leader cannot leave"
    /\ reqs[s].arg = t.id /\ reqs[s].user = t.teamLeader
    /\ Len(t.members) > 1

====
